---- MODULE Spec2Model ----
(***************************************************************************)
(* Model of the two derivation handlers of the journaling backend          *)
(* (src/main.py): generate_doodle (POST /api/doodle/generate) and          *)
(* insights_summary (GET /api/insights/summary).                           *)
(*                                                                         *)
(* Python values are tagged records: None, str (a sequence of one-         *)
(* character strings), int and ObjectId.  A dict is the sequence of its    *)
(* (key, value) pairs in insertion order; a dict whose order nothing       *)
(* observes (mood_counts, metrics_acc, metrics_avg) is a function.         *)
(***************************************************************************)
EXTENDS Integers, Sequences, FiniteSets, TLC

VARIABLES
    op,      \* the endpoint the request is for: "doodle" or "insights"
    req,     \* the DoodleRequest body (text, answers, metrics)
    items,   \* the list get_documents returned to insights_summary
    resp,    \* the handler's return value, NoResp before it ran
    pc       \* "start" before the handler ran, "done" after it returned

vars == <<op, req, items, resp, pc>>

----------------------------------------------------------------------------
(* Python values *)

PyNone == [type |-> "NoneType"]
PyStr(s) == [type |-> "str", val |-> s]
PyInt(n) == [type |-> "int", val |-> n]
ObjectId(n) == [type |-> "ObjectId", val |-> n]

IsNone(v) == v.type = "NoneType"
IsStr(v) == v.type = "str"

\* Python truthiness of the values used here: None, "" and 0 are falsy.
Truthy(v) ==
    CASE v.type = "NoneType" -> FALSE
      [] v.type = "str" -> v.val # <<>>
      [] v.type = "int" -> v.val # 0
      [] OTHER -> TRUE

\* x or y
PyOr(x, y) == IF Truthy(x) THEN x ELSE y

\* d.get(k) on a dict given as its sequence of [k, v] pairs.
DictHas(d, k) == \E i \in 1..Len(d) : d[i].k = k
DictGet(d, k) == IF DictHas(d, k) THEN d[CHOOSE i \in 1..Len(d) : d[i].k = k].v ELSE PyNone

\* list(d.values())
DictValues(d) == [i \in 1..Len(d) |-> d[i].v]

\* The TLA+ string spelling a sequence of characters (for table lookups).
RECURSIVE Join(_)
Join(s) == IF s = <<>> THEN "" ELSE Head(s) \o Join(Tail(s))

RECURSIVE Flatten(_)
Flatten(ss) == IF ss = <<>> THEN <<>> ELSE Head(ss) \o Flatten(Tail(ss))

----------------------------------------------------------------------------
(* Characters *)

UpperCase == <<"A", "B", "C", "D", "E", "F", "G", "H", "I", "J", "K", "L", "M", "N", "O", "P", "Q", "R", "S", "T", "U", "V", "W", "X", "Y", "Z">>
LowerCase == <<"a", "b", "c", "d", "e", "f", "g", "h", "i", "j", "k", "l", "m", "n", "o", "p", "q", "r", "s", "t", "u", "v", "w", "x", "y", "z">>
Digits == <<"0", "1", "2", "3", "4", "5", "6", "7", "8", "9">>

Range(s) == {s[i] : i \in 1..Len(s)}

\* The lower-case letter of each upper-case letter.
LowerOf ==
    [c \in Range(UpperCase) |-> LowerCase[CHOOSE i \in 1..Len(UpperCase) : UpperCase[i] = c]]

\* str.lower() on one character of the ASCII range.
LowerChar(c) == IF c \in DOMAIN LowerOf THEN LowerOf[c] ELSE c

\* str.lower()
lower(s) == [i \in 1..Len(s) |-> LowerChar(s[i])]

----------------------------------------------------------------------------
(* generate_doodle *)

\* The character class of the pattern [a-zA-Z']+ .
TokenChars == Range(LowerCase) \cup Range(UpperCase) \cup {"'"}

\* re.findall(r"[a-zA-Z']+", s): the maximal runs of class characters, left
\* to right.  A run starts where a class character follows none, and ends
\* at the last class character before the next other character.
RunStarts(s) ==
    SelectSeq([i \in 1..Len(s) |-> i],
              LAMBDA i : s[i] \in TokenChars /\ (i = 1 \/ s[i - 1] \notin TokenChars))

RunEnd(s, i) ==
    CHOOSE j \in i..Len(s) :
        /\ \A k \in i..j : s[k] \in TokenChars
        /\ j = Len(s) \/ s[j + 1] \notin TokenChars

\* The runs of s that start at the positions starts.
RunsFrom(s, starts) ==
    [k \in 1..Len(starts) |-> SubSeq(s, starts[k], RunEnd(s, starts[k]))]

re_findall(s) == RunsFrom(s, RunStarts(s))

\* " ".join(parts)
RECURSIVE SpaceJoin(_)
SpaceJoin(parts) ==
    IF parts = <<>> THEN <<>>
    ELSE IF Len(parts) = 1 THEN Head(parts)
    ELSE Head(parts) \o <<" ">> \o SpaceJoin(Tail(parts))

\* content = " ".join([req.text or ""] + list(req.answers.values()))
content(r) == SpaceJoin(<<PyOr(r.text, PyStr(<<>>)).val>> \o DictValues(r.answers))

\* tokens = re.findall(r"[a-zA-Z']+", content.lower())
\* Variant: the pattern applied without lower-casing first.
tokens_nolower(c) == re_findall(c)
tokens(c) == re_findall(lower(c))

stop == {"the", "a", "an", "and", "or", "but", "if", "to", "of", "for", "with", "on", "in", "at", "from", "by", "is", "are", "am", "was", "were", "be", "been", "being", "i", "me", "my", "we", "our", "you", "your", "they", "their", "it", "its", "this", "that", "these", "those"}

\* words = [t for t in tokens if t not in stop and len(t) > 2]
MinLen == 2
\* Variant: the length test alone.
words_nostop(ts) == SelectSeq(ts, LAMBDA t : Len(t) > MinLen)
words(ts) == SelectSeq(ts, LAMBDA t : Join(t) \notin stop /\ Len(t) > MinLen)

\* Counter(words): the (word, count) pairs in order of first insertion.
RECURSIVE CounterAcc(_, _)
CounterAcc(ws, acc) ==
    IF ws = <<>> THEN acc
    ELSE LET w == Head(ws) IN
         IF \E i \in 1..Len(acc) : acc[i].w = w
         THEN CounterAcc(Tail(ws),
                  [i \in 1..Len(acc) |->
                      IF acc[i].w = w THEN [acc[i] EXCEPT !.n = @ + 1] ELSE acc[i]])
         ELSE CounterAcc(Tail(ws), Append(acc, [w |-> w, n |-> 1]))

Counter(ws) == CounterAcc(ws, <<>>)

\* One step of a stable descending sort on the count: e goes behind every
\* element whose count is at least its own.
InsertDesc(sorted, e) ==
    LET p == Cardinality({i \in 1..Len(sorted) : sorted[i].n >= e.n})
    IN  SubSeq(sorted, 1, p) \o <<e>> \o SubSeq(sorted, p + 1, Len(sorted))

\* The same step with equal counts in reverse order of insertion.
InsertDescReversed(sorted, e) ==
    LET p == Cardinality({i \in 1..Len(sorted) : sorted[i].n > e.n})
    IN  SubSeq(sorted, 1, p) \o <<e>> \o SubSeq(sorted, p + 1, Len(sorted))

RECURSIVE SortedDesc(_, _)
SortedDesc(s, acc) ==
    IF s = <<>> THEN acc ELSE SortedDesc(Tail(s), InsertDesc(acc, Head(s)))

RECURSIVE SortedDescReversed(_, _)
SortedDescReversed(s, acc) ==
    IF s = <<>> THEN acc ELSE SortedDescReversed(Tail(s), InsertDescReversed(acc, Head(s)))

Take(s, n) == SubSeq(s, 1, IF Len(s) < n THEN Len(s) ELSE n)

\* Counter.most_common(n): heapq.nlargest(n, items, key=count), which is
\* sorted(items, key=count, reverse=True)[:n]; equal counts keep their
\* insertion order.
\* Variants: equal counts in reverse order (sorted(...)[::-1][:n]); no cut.
most_common_reversed(counts, n) == Take(SortedDescReversed(counts, <<>>), n)
most_common_all(counts, n) == SortedDesc(counts, <<>>)
most_common(counts, n) == Take(SortedDesc(counts, <<>>), n)

TopN == 8

\* top = [w for w, _ in counts.most_common(8)]
top_of(ws) == LET mc == most_common(Counter(ws), TopN) IN [i \in 1..Len(mc) |-> mc[i].w]

library ==
    [w \in {"coffee", "friend", "friends", "gym", "run", "walk", "family", "work",
            "study", "dog", "cat", "movie", "nature", "sleep", "sun", "beach",
            "party", "cook", "bake", "happy", "grateful"} |->
        CASE w = "coffee" -> [type |-> "element", name |-> "coffee-cup"]
          [] w = "friend" -> [type |-> "character", name |-> "friend"]
          [] w = "friends" -> [type |-> "character", name |-> "friends"]
          [] w = "gym" -> [type |-> "element", name |-> "dumbbell"]
          [] w = "run" -> [type |-> "element", name |-> "running-shoe"]
          [] w = "walk" -> [type |-> "element", name |-> "footsteps"]
          [] w = "family" -> [type |-> "character", name |-> "family"]
          [] w = "work" -> [type |-> "element", name |-> "laptop"]
          [] w = "study" -> [type |-> "element", name |-> "book"]
          [] w = "dog" -> [type |-> "character", name |-> "dog"]
          [] w = "cat" -> [type |-> "character", name |-> "cat"]
          [] w = "movie" -> [type |-> "element", name |-> "film-reel"]
          [] w = "nature" -> [type |-> "element", name |-> "leaf"]
          [] w = "sleep" -> [type |-> "element", name |-> "moon"]
          [] w = "sun" -> [type |-> "element", name |-> "sun"]
          [] w = "beach" -> [type |-> "element", name |-> "wave"]
          [] w = "party" -> [type |-> "element", name |-> "balloons"]
          [] w = "cook" -> [type |-> "element", name |-> "chef-hat"]
          [] w = "bake" -> [type |-> "element", name |-> "cupcake"]
          [] w = "happy" -> [type |-> "character", name |-> "smiley"]
          [] w = "grateful" -> [type |-> "element", name |-> "sparkles"]]

\* elements: library[w] if w in library else {"type": "tag", "name": w}
elements_of(top) ==
    [i \in 1..Len(top) |->
        IF Join(top[i]) \in DOMAIN library
        THEN library[Join(top[i])]
        ELSE [type |-> "tag", name |-> Join(top[i])]]

cols == 4
Pitch == 96
Margin == 32
Size == 64

\* canvas: enumerate(elements) counts from 0, sequences here from 1.
\* Variant: x and y exchanged.
canvas_swapped(elements) ==
    [k \in 1..Len(elements) |->
        [type |-> elements[k].type, name |-> elements[k].name,
         x |-> ((k - 1) \div cols) * Pitch + Margin,
         y |-> ((k - 1) % cols) * Pitch + Margin,
         size |-> Size]]
canvas_of(elements) ==
    [k \in 1..Len(elements) |->
        [type |-> elements[k].type, name |-> elements[k].name,
         x |-> ((k - 1) % cols) * Pitch + Margin,
         y |-> ((k - 1) \div cols) * Pitch + Margin,
         size |-> Size]]

happy_s == <<"h", "a", "p", "p", "y">>
Happy_s == <<"H", "a", "p", "p", "y">>
grateful_s == <<"g", "r", "a", "t", "e", "f", "u", "l">>
excited_s == <<"e", "x", "c", "i", "t", "e", "d">>

\* palette = "sunset" if req.metrics.get("mood") in ("happy", "grateful",
\* "excited") else "midnight"
\* Variant: the mood compared without regard to case.
palette_anycase(metrics) ==
    LET m == DictGet(metrics, "mood") IN
    IF IsStr(m) /\ lower(m.val) \in {happy_s, grateful_s, excited_s}
    THEN "sunset" ELSE "midnight"
palette_of(metrics) ==
    LET m == DictGet(metrics, "mood") IN
    IF IsStr(m) /\ m.val \in {happy_s, grateful_s, excited_s}
    THEN "sunset" ELSE "midnight"

\* The value generate_doodle returns for request r.
doodle_of(r) ==
    LET top == top_of(words(tokens(content(r))))
    IN  [palette |-> palette_of(r.metrics),
         items |-> canvas_of(elements_of(top)),
         keywords |-> top]

----------------------------------------------------------------------------
(* insights_summary *)

PyDict(d) == [type |-> "dict", val |-> d]

\* d[k] = v: replaces the value of an existing key, else appends the pair.
DictSet(d, k, v) ==
    IF DictHas(d, k)
    THEN [i \in 1..Len(d) |-> IF d[i].k = k THEN [k |-> k, v |-> v] ELSE d[i]]
    ELSE Append(d, [k |-> k, v |-> v])

unknown_s == <<"u", "n", "k", "n", "o", "w", "n">>

\* m = (e.get("mood") or "unknown").lower()
\* Variants: without .lower(); without the "unknown" default.
mood_raw(e) == Join(PyOr(DictGet(e, "mood"), PyStr(unknown_s)).val)
mood_present(e) == Join(lower(DictGet(e, "mood").val))
mood_of(e) == Join(lower(PyOr(DictGet(e, "mood"), PyStr(unknown_s)).val))

\* mood_counts[m] = mood_counts.get(m, 0) + 1
Incr(counts, m) ==
    IF m \in DOMAIN counts
    THEN [counts EXCEPT ![m] = @ + 1]
    ELSE counts @@ (m :> 1)

RECURSIVE DigitsValue(_, _)
DigitsValue(s, acc) ==
    IF s = <<>> THEN acc
    ELSE DigitsValue(Tail(s),
             acc * Len(Digits) + (CHOOSE i \in 1..Len(Digits) : Digits[i] = Head(s)) - 1)

\* float(v) returns for an int and for a str of decimal digits, and raises
\* (TypeError, ValueError) for None, "" and a str with any other character
\* of the alphabet of the values given here (letters).
float_ok(v) ==
    CASE v.type = "int" -> TRUE
      [] v.type = "str" -> v.val # <<>> /\ \A i \in 1..Len(v.val) : v.val[i] \in Range(Digits)
      [] OTHER -> FALSE

float_val(v) == IF v.type = "int" THEN v.val ELSE DigitsValue(v.val, 0)

\* try: metrics_acc.setdefault(k, []).append(float(v))
\* except Exception: pass
\* The call's target, metrics_acc.setdefault(k, []), is evaluated before
\* its argument float(v): the key is in metrics_acc when float(v) raises.
acc_pair(acc, k, v) ==
    LET a == IF k \in DOMAIN acc THEN acc ELSE acc @@ (k :> <<>>)
    IN  IF float_ok(v) THEN [a EXCEPT ![k] = Append(@, float_val(v))] ELSE a

RECURSIVE acc_pairs(_, _)
acc_pairs(acc, d) ==
    IF d = <<>> THEN acc ELSE acc_pairs(acc_pair(acc, Head(d).k, Head(d).v), Tail(d))

\* (e.get("metrics") or {}).items()
metrics_items(e) == PyOr(DictGet(e, "metrics"), PyDict(<<>>)).val

NoCounts == [m \in {} |-> 0]
NoAcc == [k \in {} |-> <<>>]

\* The for e in items loop: st is (mood_counts, metrics_acc).
\* Variant: a record without a mood is not counted.
RECURSIVE loop_unlabelled_skipped(_, _)
loop_unlabelled_skipped(es, st) ==
    IF es = <<>> THEN st
    ELSE loop_unlabelled_skipped(Tail(es),
             [mood_counts |-> IF Truthy(DictGet(Head(es), "mood"))
                              THEN Incr(st.mood_counts, mood_present(Head(es)))
                              ELSE st.mood_counts,
              metrics_acc |-> acc_pairs(st.metrics_acc, metrics_items(Head(es)))])

\* Variant: moods counted as written.
RECURSIVE loop_nolower(_, _)
loop_nolower(es, st) ==
    IF es = <<>> THEN st
    ELSE loop_nolower(Tail(es),
             [mood_counts |-> Incr(st.mood_counts, mood_raw(Head(es))),
              metrics_acc |-> acc_pairs(st.metrics_acc, metrics_items(Head(es)))])

RECURSIVE loop(_, _)
loop(es, st) ==
    IF es = <<>> THEN st
    ELSE loop(Tail(es),
             [mood_counts |-> Incr(st.mood_counts, mood_of(Head(es))),
              metrics_acc |-> acc_pairs(st.metrics_acc, metrics_items(Head(es)))])

RECURSIVE Sum(_)
Sum(s) == IF s = <<>> THEN 0 ELSE Head(s) + Sum(Tail(s))

RECURSIVE Gcd(_, _)
Gcd(a, b) == IF b = 0 THEN a ELSE Gcd(b, a % b)

\* The float a / b (b > 0), as the fraction in lowest terms.
Div(a, b) == LET g == Gcd(a, b) IN [num |-> a \div g, den |-> b \div g]

\* sum(v) / len(v) if v else 0
average(v) == IF v # <<>> THEN Div(Sum(v), Len(v)) ELSE [num |-> 0, den |-> 1]

\* The value insights_summary returns for the fetched list es.
summary_of(es) ==
    LET st == loop(es, [mood_counts |-> NoCounts, metrics_acc |-> NoAcc])
    IN  [mood |-> st.mood_counts,
         metrics_avg |-> [k \in DOMAIN st.metrics_acc |-> average(st.metrics_acc[k])],
         count |-> Len(es)]

None_s == <<"N", "o", "n", "e">>

\* str(v) for None and for an ObjectId (its digits stand for the hex form).
str_(v) == IF IsNone(v) THEN PyStr(None_s) ELSE PyStr(<<Digits[v.val + 1]>>)

\* for it in items: it["_id"] = str(it.get("_id"))
stringify_ids(es) == [i \in 1..Len(es) |-> DictSet(es[i], "_id", str_(DictGet(es[i], "_id")))]

----------------------------------------------------------------------------
(* Requests *)

\* Pieces of journal text: repeated and upper-case words, stop words and
\* short tokens, an apostrophe, and nine distinct words between separators.
FragCoffee == <<"C", "o", "f", "f", "e", "e", " ", "c", "o", "f", "f", "e", "e", " ", "C", "O", "F", "F", "E", "E", " ", "f", "r", "i", "e", "n", "d", " ", "f", "r", "i", "e", "n", "d", " ", "g", "y", "m">>
FragStops == <<" ", "I", " ", "a", "m", " ", "o", "k", " ", "a", "t", " ", "i", "t", " ">>
FragDont == <<"t", "h", "e", " ", "d", "o", "n", "'", "t">>
FragWalk == <<" ", "r", "u", "n", " ", "w", "a", "l", "k", " ", "d", "o", "g", " ", "c", "a", "t", " ", "s", "u", "n", ",", " ", "b", "e", "a", "c", "h", "-", "p", "a", "r", "t", "y", " ", "c", "o", "o", "k", "2", "b", "a", "k", "e", " ">>

Fragments == {FragCoffee, FragStops, FragDont, FragWalk}

MaxFrags == 2
MaxAnswers == 1
MaxRecords == 2

SeqsUpTo(S, n) == UNION {[1..k -> S] : k \in 0..n}

\* text: None, or up to MaxFrags fragments written one after the other.
Texts == {PyNone} \cup {PyStr(Flatten(fs)) : fs \in SeqsUpTo(Fragments, MaxFrags)}

QuestionIds == <<"q1", "q2", "q3", "q4">>

\* answers: up to MaxAnswers question ids, each with one fragment as answer.
Answers == {[i \in 1..Len(fs) |-> [k |-> QuestionIds[i], v |-> fs[i]]] :
               fs \in SeqsUpTo(Fragments, MaxAnswers)}

MoodValues == {PyNone, PyStr(happy_s), PyStr(Happy_s), PyStr(grateful_s), PyStr(excited_s)}

DoodleMetrics ==
    {<<>>, <<[k |-> "sleep", v |-> PyStr(happy_s)]>>}
    \cup {<<[k |-> "mood", v |-> m]>> : m \in MoodValues}

DoodleRequests == [text : Texts, answers : Answers, metrics : DoodleMetrics]

EmptyRequest == [text |-> PyNone, answers |-> <<>>, metrics |-> <<>>]

seven_s == <<"7">>
bad_s == <<"b", "a", "d">>

\* An entry's mood: the key absent, None, "" or a label.
EntryMoods ==
    {<<>>} \cup {<<[k |-> "mood", v |-> m]>> :
                    m \in {PyNone, PyStr(<<>>), PyStr(Happy_s), PyStr(happy_s)}}

\* An entry's metrics: the key absent or a dict of trackers.
EntryMetrics ==
    {<<>>} \cup {<<[k |-> "metrics", v |-> m]>> :
                    m \in {PyDict(<<[k |-> "sleep", v |-> PyStr(seven_s)]>>),
                           PyDict(<<[k |-> "sleep", v |-> PyStr(bad_s)]>>),
                           PyDict(<<[k |-> "water", v |-> PyStr(bad_s)],
                                    [k |-> "sleep", v |-> PyInt(8)]>>)}}

\* The lists get_documents returns: up to MaxRecords entries, the i-th
\* with the store-assigned _id ObjectId(i).
EntryLists ==
    {[i \in 1..Len(cs) |-> <<[k |-> "_id", v |-> ObjectId(i)]>> \o cs[i][1] \o cs[i][2]] :
        cs \in SeqsUpTo(EntryMoods \X EntryMetrics, MaxRecords)}

NoResp == [pending |-> TRUE]

----------------------------------------------------------------------------
(* The state machine: one request, handled in one step *)

Init ==
    /\ pc = "start"
    /\ resp = NoResp
    /\ \/ op = "doodle" /\ req \in DoodleRequests /\ items = <<>>
       \/ op = "insights" /\ req = EmptyRequest /\ items \in EntryLists

generate_doodle ==
    /\ pc = "start"
    /\ op = "doodle"
    /\ resp' = [doodle |-> doodle_of(req)]
    /\ pc' = "done"
    /\ UNCHANGED <<op, req, items>>

insights_summary ==
    /\ pc = "start"
    /\ op = "insights"
    /\ resp' = summary_of(items)
    /\ items' = stringify_ids(items)
    /\ pc' = "done"
    /\ UNCHANGED <<op, req>>

Next == generate_doodle \/ insights_summary

Spec == Init /\ [][Next]_vars

----------------------------------------------------------------------------
(* Properties of generate_doodle *)

DoodleDone == pc = "done" /\ op = "doodle"

\* The tokens of the request's corpus that survive the filter.
Survivors == words(tokens(content(req)))

Occurrences(w, ws) == Cardinality({i \in 1..Len(ws) : ws[i] = w})
FirstSeen(w, ws) == CHOOSE i \in 1..Len(ws) : ws[i] = w /\ \A j \in 1..(i - 1) : ws[j] # w

\* a ranks before b: more occurrences, or as many and seen first.
RanksBefore(a, b, ws) ==
    \/ Occurrences(a, ws) > Occurrences(b, ws)
    \/ Occurrences(a, ws) = Occurrences(b, ws) /\ FirstSeen(a, ws) < FirstSeen(b, ws)

LowerLetters == Range(LowerCase)

\* C1: the returned keywords are the surviving tokens of the corpus (text,
\* then the answer values in insertion order) ranked by descending number
\* of occurrences, equal numbers by first occurrence, cut to the first 8.
C1_KeywordsRanked ==
    DoodleDone =>
        \A ws \in {Survivors} :
            LET kw == resp.doodle.keywords
                distinct == Cardinality(Range(ws))
            IN  /\ Len(kw) = IF distinct < 8 THEN distinct ELSE 8
                /\ \A i \in 1..Len(kw) : kw[i] \in Range(ws)
                /\ \A i, j \in 1..Len(kw) : i < j => RanksBefore(kw[i], kw[j], ws)
                /\ \A w \in Range(ws) \ Range(kw) :
                       \A i \in 1..Len(kw) : RanksBefore(kw[i], w, ws)

\* More than 8 distinct survivors, drawn from the text and an answer, with
\* both a strict step and a tie among the counts of the returned keywords.
C1_Witness ==
    /\ DoodleDone
    /\ Truthy(req.text)
    /\ Len(req.answers) > 0
    /\ Len(resp.doodle.keywords) = 8
    /\ \E ws \in {Survivors} :
           /\ Cardinality(Range(ws)) > 8
           /\ \E i \in 1..7 :
                  Occurrences(resp.doodle.keywords[i], ws)
                      > Occurrences(resp.doodle.keywords[i + 1], ws)
           /\ \E i \in 1..7 :
                  Occurrences(resp.doodle.keywords[i], ws)
                      = Occurrences(resp.doodle.keywords[i + 1], ws)

\* C2: keywords has at most 8 entries and items has as many as keywords.
C2_LengthsAgree ==
    DoodleDone =>
        /\ Len(resp.doodle.keywords) <= 8
        /\ Len(resp.doodle.items) = Len(resp.doodle.keywords)

\* A corpus with more than 8 distinct survivors was cut to 8 keywords.
C2_Witness ==
    /\ DoodleDone
    /\ Cardinality(Range(Survivors)) > 8
    /\ Len(resp.doodle.keywords) = 8
    /\ Len(resp.doodle.items) = 8

\* C3: no keyword is a stop word, none has length 2 or less, and a corpus
\* of stop words and short tokens only yields no keywords.
C3_NoStopNoShort ==
    DoodleDone =>
        \A ts \in {tokens(content(req))} :
            LET kw == resp.doodle.keywords
            IN  /\ \A i \in 1..Len(kw) : Join(kw[i]) \notin stop /\ Len(kw[i]) > 2
                /\ (\A i \in 1..Len(ts) : Join(ts[i]) \in stop \/ Len(ts[i]) <= 2)
                       => kw = <<>>

\* The corpus has a stop word, a short token that is no stop word and a
\* token that survives.
C3_Witness ==
    /\ DoodleDone
    /\ \E ts \in {tokens(content(req))} :
           /\ \E i \in 1..Len(ts) : Join(ts[i]) \in stop /\ Len(ts[i]) > 2
           /\ \E i \in 1..Len(ts) : Join(ts[i]) \notin stop /\ Len(ts[i]) <= 2
    /\ resp.doodle.keywords # <<>>

\* C6: the palette is "sunset" exactly when metrics has the key "mood"
\* with the value "happy", "grateful" or "excited", else "midnight",
\* whatever the text and the answers.
C6_Palette ==
    DoodleDone =>
        LET sunny ==
                \E i \in 1..Len(req.metrics) :
                    /\ req.metrics[i].k = "mood"
                    /\ req.metrics[i].v.type = "str"
                    /\ \/ req.metrics[i].v.val = happy_s
                       \/ req.metrics[i].v.val = grateful_s
                       \/ req.metrics[i].v.val = excited_s
        IN  resp.doodle.palette = IF sunny THEN "sunset" ELSE "midnight"

\* A request with text, an answer and the mood "excited" got "sunset".
C6_Witness ==
    /\ DoodleDone
    /\ Truthy(req.text)
    /\ Len(req.answers) > 0
    /\ DictGet(req.metrics, "mood") = PyStr(excited_s)
    /\ resp.doodle.palette = "sunset"

\* C7: the i-th item (from 0) is at x = (i mod 4) * 96 + 32,
\* y = floor(i / 4) * 96 + 32 with size 64, and is the i-th keyword's item.
C7_Grid ==
    DoodleDone =>
        LET it == resp.doodle.items
            kw == resp.doodle.keywords
        IN  \A k \in 1..Len(it) :
                /\ it[k].x = ((k - 1) % 4) * 96 + 32
                /\ it[k].y = ((k - 1) \div 4) * 96 + 32
                /\ it[k].size = 64
                /\ k <= Len(kw)
                /\ IF Join(kw[k]) \in DOMAIN library
                   THEN it[k].type = library[Join(kw[k])].type
                        /\ it[k].name = library[Join(kw[k])].name
                   ELSE it[k].type = "tag" /\ it[k].name = Join(kw[k])

\* Two full rows: 8 items, one of them a tag and one from the library.
C7_Witness ==
    /\ DoodleDone
    /\ Len(resp.doodle.items) = 8
    /\ resp.doodle.items[8].x = 320
    /\ resp.doodle.items[8].y = 128
    /\ \E k \in 1..8 : resp.doodle.items[k].type = "tag"
    /\ \E k \in 1..8 : resp.doodle.items[k].type = "character"

\* C10 as stated: every surviving token and every keyword consists of the
\* letters a-z only.
C10_OnlyLetters ==
    DoodleDone =>
        /\ \A ws \in {Survivors} :
               \A i \in 1..Len(ws) : Range(ws[i]) \subseteq LowerLetters
        /\ \A i \in 1..Len(resp.doodle.keywords) :
               Range(resp.doodle.keywords[i]) \subseteq LowerLetters

\* C10 as amended: every surviving token and every keyword consists of the
\* letters a-z and the apostrophe only.
C10_LettersOrApostrophe ==
    DoodleDone =>
        /\ \A ws \in {Survivors} :
               \A i \in 1..Len(ws) : Range(ws[i]) \subseteq LowerLetters \cup {"'"}
        /\ \A i \in 1..Len(resp.doodle.keywords) :
               Range(resp.doodle.keywords[i]) \subseteq LowerLetters \cup {"'"}

\* A corpus with upper-case letters gave a keyword with an apostrophe.
C10_Witness ==
    /\ DoodleDone
    /\ \E c \in {content(req)} : \E i \in 1..Len(c) : c[i] \in Range(UpperCase)
    /\ \E i \in 1..Len(resp.doodle.keywords) : "'" \in Range(resp.doodle.keywords[i])

----------------------------------------------------------------------------
(* Properties of insights_summary *)

InsightsDone == pc = "done" /\ op = "insights"

RECURSIVE SumValues(_, _)
SumValues(f, keys) ==
    IF keys = {} THEN 0
    ELSE LET k == CHOOSE x \in keys : TRUE IN f[k] + SumValues(f, keys \ {k})

\* C4: the mood counts add up to count, and count is the number of records.
C4_CountsAddUp ==
    InsightsDone =>
        /\ SumValues(resp.mood, DOMAIN resp.mood) = resp.count
        /\ resp.count = Len(items)

\* Two records, one with a mood and one without, were summarised.
C4_Witness ==
    /\ InsightsDone
    /\ Len(items) = 2
    /\ resp.count = 2
    /\ Cardinality(DOMAIN resp.mood) = 2
    /\ "unknown" \in DOMAIN resp.mood

\* The metrics of record e, and the records with pair j of record i removed.
MetricsOf(e) == IF DictHas(e, "metrics") /\ DictGet(e, "metrics").type = "dict"
                THEN DictGet(e, "metrics").val ELSE <<>>
RemoveAt(s, j) == SubSeq(s, 1, j - 1) \o SubSeq(s, j + 1, Len(s))
WithoutPair(es, i, j) ==
    [es EXCEPT ![i] = DictSet(es[i], "metrics", PyDict(RemoveAt(MetricsOf(es[i]), j)))]

\* C5: a pair whose value is no number is skipped: the summary is that of
\* the same records without the pair.
C5_SkippedPairLeavesNoTrace ==
    InsightsDone =>
        \A i \in 1..Len(items) :
            \A j \in 1..Len(MetricsOf(items[i])) :
                ~float_ok(MetricsOf(items[i])[j].v)
                    => resp = summary_of(WithoutPair(items, i, j))

\* C8: the call leaves every record of its input as it was.
C8_RecordsUntouched == [][items' = items]_vars

\* The label the claim gives a record: "unknown" for a missing, null or
\* empty mood, else the mood in lower case.
Label(e) ==
    IF \/ ~DictHas(e, "mood")
       \/ DictGet(e, "mood") = PyNone
       \/ DictGet(e, "mood") = PyStr(<<>>)
    THEN "unknown"
    ELSE Join(lower(DictGet(e, "mood").val))

\* C9: each label's count is the number of records with that label, and a
\* label no record has is not in the counts.
C9_MoodCounts ==
    InsightsDone =>
        /\ DOMAIN resp.mood = {Label(items[i]) : i \in 1..Len(items)}
        /\ \A L \in DOMAIN resp.mood :
               resp.mood[L] = Cardinality({i \in 1..Len(items) : Label(items[i]) = L})

\* "Happy" and "happy" were counted under one label.
C9_Witness ==
    /\ InsightsDone
    /\ \E i, j \in 1..Len(items) :
           /\ DictGet(items[i], "mood") = PyStr(Happy_s)
           /\ DictGet(items[j], "mood") = PyStr(happy_s)
    /\ resp.mood = ("happy" :> 2)

====
